---------------------------- MODULE Spec2Model ----------------------------
(***************************************************************************)
(* CSRFPlus: the token codecs (URL-safe base64, masked tokens, HMAC-signed *)
(* stateless tokens), the in-memory secret store and the mint / verify     *)
(* middleware, as a state machine.                                         *)
(*                                                                         *)
(* Text is a string, a Buffer a sequence of bytes 0..255.  A value that    *)
(* may be missing (undefined, null, a thrown error) is None or Some(v).    *)
(***************************************************************************)
EXTENDS Integers, Sequences, FiniteSets, TLC

VARIABLES
    opts,      \* the engine's options, fixed by createMiddleware
    now,       \* Date.now(), in milliseconds
    map,       \* the memory store's Map: key -> [val, exp, wid]
    timers,    \* setTimeout callbacks the store scheduled and has not run
    mac,       \* the HMAC-SHA256 values computed so far: <<key, text>> -> digest
    issued,    \* every token the library returned so far (history)
    pend,      \* mint calls whose store.get found no secret: their key, and once
               \* store.set is done the secret, the number and the time of the write
    writes,    \* number of store writes so far (numbers the entries)
    last,      \* the last completed operation and what it did
    cin,       \* the input and result of a function run on its own
    sets       \* per key, the store's most recent set and whether a del followed (history)

vars == <<opts, now, map, timers, mac, issued, pend, writes, last, cin, sets>>

None == <<>>
Some(v) == <<v>>

\* JavaScript's truthiness of a text / of a number that may be missing
Truthy(t) == t # None /\ t[1] # ""
TruthyNum(n) == n # None /\ n[1] # 0

----------------------------------------------------------------------------
(* Bounds of the model *)

\* bytes per secret (opts.secretLen; the default is 32)
SecretLen == 1
\* tokens the history keeps; minting stops there
MaxIssued == 2
\* store writes per behaviour
MaxWrites == 2
\* bytes of the longest secret the mask codec is run on
MaxMaskLen == 2
\* the clock's first value, in milliseconds
StartTime == 2000

----------------------------------------------------------------------------
(* Program constants *)

\* memory.js: Date.now() + ttlSec * 1000
MsPerSec == 1000
\* memory.js: setTimeout(..., ttlSec * 1000 + 100)
CleanupSlackMs == 100
\* the separator byte '.' of a signed token
DotByte == 46
\* bytes of an HMAC-SHA256 digest
MacLen == 32

----------------------------------------------------------------------------
(* Sequences and text *)

Range(s) == {s[i] : i \in DOMAIN s}

Pow2(n) == 2 ^ n

\* str[i], counted from 1
Ch(str, i) == SubSeq(str, i, i)

\* the text of the characters cs, in order
Cat(cs) ==
    LET F[i \in 0..Len(cs)] == IF i = 0 THEN "" ELSE F[i - 1] \o cs[i]
    IN  F[Len(cs)]

Repeat(c, n) == Cat([i \in 1..n |-> c])

\* the least / greatest member of a non-empty set of integers
Min(S) == CHOOSE i \in S : \A j \in S : i <= j
Max(S) == CHOOSE i \in S : \A j \in S : j <= i

----------------------------------------------------------------------------
(* Characters and bytes *)

\* printable ASCII, code 32 first (code 96, the grave accent, is written <96>)
Ascii ==
    << " ", "!", "\"", "#", "$", "%", "&", "'", "(", ")", "*", "+", ",", "-", ".", "/",
       "0", "1", "2", "3", "4", "5", "6", "7", "8", "9", ":", ";", "<", "=", ">", "?",
       "@", "A", "B", "C", "D", "E", "F", "G", "H", "I", "J", "K", "L", "M", "N", "O",
       "P", "Q", "R", "S", "T", "U", "V", "W", "X", "Y", "Z", "[", "\\", "]", "^", "_",
       "<96>", "a", "b", "c", "d", "e", "f", "g", "h", "i", "j", "k", "l", "m", "n", "o",
       "p", "q", "r", "s", "t", "u", "v", "w", "x", "y", "z", "{", "|", "}", "~" >>

\* U+FFFD, what Buffer.toString('utf8') gives for a byte that is no UTF-8;
\* written as the form feed, which no text of the model otherwise holds
ReplacementChar == "\f"

AsciiCode == [c \in Range(Ascii) |-> 31 + CHOOSE i \in DOMAIN Ascii : Ascii[i] = c]

\* Buffer.from(str, 'utf8'); U+FFFD is EF BF BD
Utf8Bytes(str) ==
    LET Enc(c) == IF c = ReplacementChar THEN <<239, 191, 189>> ELSE <<AsciiCode[c]>>
        F[i \in 0..Len(str)] == IF i = 0 THEN <<>> ELSE F[i - 1] \o Enc(Ch(str, i))
    IN  F[Len(str)]

\* buf.toString('utf8'): a printable ASCII byte is its character.  The other
\* bytes of the model's buffers are stray digest bytes, and each reads as U+FFFD
Utf8String(buf) ==
    Cat([i \in 1..Len(buf) |-> IF buf[i] >= 32 /\ buf[i] <= 126 THEN Ascii[buf[i] - 31]
                               ELSE ReplacementChar])

Bit(a, i) == (a \div Pow2(i)) % 2

\* a ^ b on bytes
XorByte(a, b) ==
    LET F[i \in 0..8] == IF i = 8 THEN 0
                         ELSE ((Bit(a, i) + Bit(b, i)) % 2) * Pow2(i) + F[i + 1]
    IN  F[0]

XorBytes(a, b) == [i \in 1..Len(a) |-> XorByte(a[i], b[i])]

----------------------------------------------------------------------------
(* utils/b64url.js *)

B64Std ==
    << "A", "B", "C", "D", "E", "F", "G", "H", "I", "J", "K", "L", "M", "N", "O", "P",
       "Q", "R", "S", "T", "U", "V", "W", "X", "Y", "Z", "a", "b", "c", "d", "e", "f",
       "g", "h", "i", "j", "k", "l", "m", "n", "o", "p", "q", "r", "s", "t", "u", "v",
       "w", "x", "y", "z", "0", "1", "2", "3", "4", "5", "6", "7", "8", "9", "+", "/" >>

B64Index == [c \in Range(B64Std) |-> (CHOOSE i \in DOMAIN B64Std : B64Std[i] = c) - 1]

\* the sextet a character stands for in Buffer.from(str, 'base64'), which reads
\* the standard and the URL-safe alphabet alike; -1 for any other character
Unbase64(c) ==
    IF c = "-" THEN 62
    ELSE IF c = "_" THEN 63
    ELSE IF c \in DOMAIN B64Index THEN B64Index[c]
    ELSE -1

\* buf.toString('base64'): three bytes to four characters, '=' padded
ToBase64(buf) ==
    LET n == Len(buf)
        m == (8 * n + 5) \div 6
        Sextet(j) ==
            LET o == 6 * (j - 1)
                i == (o \div 8) + 1
                w == buf[i] * 256 + (IF i + 1 <= n THEN buf[i + 1] ELSE 0)
            IN  (w \div Pow2(10 - (o % 8))) % 64
    IN  Cat([j \in 1..m |-> B64Std[Sextet(j) + 1]]) \o Repeat("=", (4 - (m % 4)) % 4)

\* str.replace(/x/g, y) for a character x
ReplaceAll(str, x, y) == Cat([i \in 1..Len(str) |-> IF Ch(str, i) = x THEN y ELSE Ch(str, i)])

\* str.replace(/=+$/, '')
StripPad(str) ==
    SubSeq(str, 1, Min({i \in 0..Len(str) : \A j \in (i + 1)..Len(str) : Ch(str, j) = "="}))

\* Buffer.from(str, 'base64'): characters outside the alphabet are skipped, the
\* first '=' ends the input, a trailing lone sextet is dropped and the unused
\* low bits of the last sextet are ignored
FromBase64(str) ==
    LET pads == {i \in 1..Len(str) : Ch(str, i) = "="}
        stop == IF pads = {} THEN Len(str) ELSE Min(pads) - 1
        sx   == SelectSeq([i \in 1..stop |-> Unbase64(Ch(str, i))], LAMBDA v : v >= 0)
        m    == Len(sx)
        n    == (6 * m) \div 8
        Byte(i) ==
            LET o == 8 * (i - 1)
                j == (o \div 6) + 1
                w == sx[j] * 64 + sx[j + 1]
            IN  (w \div Pow2(4 - (o % 6))) % 256
    IN  [i \in 1..n |-> Byte(i)]

encode(buf) ==
    StripPad(ReplaceAll(ReplaceAll(ToBase64(buf), "+", "-"), "/", "_"))

decode(str) ==
    LET s == ReplaceAll(ReplaceAll(str, "-", "+"), "_", "/")
    IN  FromBase64(s \o Repeat("=", (4 - (Len(s) % 4)) % 4))

----------------------------------------------------------------------------
(* utils/cryptoHelpers.js *)

\* the byte values crypto.randomBytes draws from in the model
RandomByteValues == {0, 255}

\* the values randomBytes(n) may return
RandomBytes(n) == [1..n -> RandomByteValues]

\* a faulty safeEqual: the lengths are compared, the bytes are not
safeEqualLengthOnly(a, b) == Len(a) = Len(b)

safeEqual(a, b) == Len(a) = Len(b) /\ a = b

----------------------------------------------------------------------------
(* JSON, for the payloads of signed tokens *)

Digits == <<"0", "1", "2", "3", "4", "5", "6", "7", "8", "9">>

IsDigit(c) == \E i \in DOMAIN Digits : Digits[i] = c

DigitVal(c) == (CHOOSE i \in DOMAIN Digits : Digits[i] = c) - 1

\* String(n) for an integer n
IntText(n) ==
    LET D[k \in Nat] == IF k < 10 THEN Digits[k + 1]
                        ELSE D[k \div 10] \o Digits[(k % 10) + 1]
    IN  IF n < 0 THEN "-" \o D[0 - n] ELSE D[n]

\* JSON.stringify({ iat, exp })
StringifyIatExp(iat, exp) ==
    "{\"iat\":" \o IntText(iat) \o ",\"exp\":" \o IntText(exp) \o "}"

\* the pieces of str between the separators
Split(str, sep) ==
    LET at == SelectSeq([i \in 1..Len(str) |-> i], LAMBDA i : Ch(str, i) = sep)
        cut == <<0>> \o at \o <<Len(str) + 1>>
    IN  [k \in 1..(Len(at) + 1) |-> SubSeq(str, cut[k] + 1, cut[k + 1] - 1)]

\* a JSON integer: -?(0|[1-9][0-9]*)
IsIntText(t) ==
    LET d == IF Len(t) > 0 /\ Ch(t, 1) = "-" THEN SubSeq(t, 2, Len(t)) ELSE t
    IN  /\ Len(d) > 0
        /\ \A i \in 1..Len(d) : IsDigit(Ch(d, i))
        /\ (Len(d) > 1 => Ch(d, 1) # "0")

IntOfText(t) ==
    LET neg == Ch(t, 1) = "-"
        d == IF neg THEN SubSeq(t, 2, Len(t)) ELSE t
        V[i \in 0..Len(d)] == IF i = 0 THEN 0 ELSE 10 * V[i - 1] + DigitVal(Ch(d, i))
    IN  IF neg THEN 0 - V[Len(d)] ELSE V[Len(d)]

IsLetter(c) == c \in DOMAIN AsciiCode /\ AsciiCode[c] >= 97 /\ AsciiCode[c] <= 122

\* the closing quote of the member's name
NameEnd(t) == Min({i \in 2..Len(t) : Ch(t, i) = "\""} \cup {Len(t) + 1})

\* "name":integer
IsMember(t) ==
    LET q == NameEnd(t)
    IN  /\ Len(t) >= 4 /\ Ch(t, 1) = "\"" /\ q + 1 <= Len(t) /\ Ch(t, q + 1) = ":"
        /\ \A i \in 2..(q - 1) : IsLetter(Ch(t, i))
        /\ IsIntText(SubSeq(t, q + 2, Len(t)))

MemberName(t) == SubSeq(t, 2, NameEnd(t) - 1)

MemberValue(t) == IntOfText(SubSeq(t, NameEnd(t) + 2, Len(t)))

\* JSON.parse inside try/catch: None stands for the null a SyntaxError leaves.
\* The texts the model parses are objects of integer members written without
\* white space, or no JSON at all; an object reads as the function from its
\* names to their values (of a repeated name the last value).
ParseJSON(text) ==
    LET n == Len(text)
        inner == SubSeq(text, 2, n - 1)
        ms == Split(inner, ",")
    IN  IF n < 2 \/ Ch(text, 1) # "{" \/ Ch(text, n) # "}" THEN None
        ELSE IF Len(inner) = 0 THEN Some([k \in {} |-> 0])
        ELSE IF \E i \in DOMAIN ms : ~IsMember(ms[i]) THEN None
        ELSE Some([k \in {MemberName(ms[i]) : i \in DOMAIN ms} |->
                MemberValue(ms[Max({i \in DOMAIN ms : MemberName(ms[i]) = k})])])

\* payload.exp of a parsed payload: None for undefined
PayloadExp(payload) ==
    IF payload = None THEN None
    ELSE IF "exp" \in DOMAIN payload[1] THEN Some(payload[1]["exp"])
    ELSE None

----------------------------------------------------------------------------
(* token/stateless.js *)

\* The HMAC-SHA256 primitive is Node's.  A digest is MacLen bytes the model
\* does not compute: the first HMAC of a text under a key draws it from
\* Digests, and every later HMAC of that text under that key returns the same.
FilledDigest(fill, dots) == [i \in 1..MacLen |-> IF i \in dots THEN DotByte ELSE fill]

\* where a digest may hold the byte 0x2E: nowhere, in its first byte, in its last
DotShapes == {{}, {1}, {MacLen}}

\* the digests a text not signed before may get: no two texts share a digest
Digests == {FilledDigest(17 + Cardinality(DOMAIN mac), d) : d \in DotShapes}

\* the digest of a text that was never signed under the key: no token of the
\* model carries it
UnsignedDigest == FilledDigest(92, {})

\* crypto.createHmac('sha256', key).update(text).digest()
Hmac(key, text) ==
    IF <<key, text>> \in DOMAIN mac THEN mac[<<key, text>>] ELSE UnsignedDigest

\* the table after the HMAC of text under key took the value d
MacWith(key, text, d) ==
    IF <<key, text>> \in DOMAIN mac THEN mac ELSE (<<key, text>> :> d) @@ mac

\* the values the HMAC of text under key may take
MacChoices(key, text) ==
    IF <<key, text>> \in DOMAIN mac THEN {mac[<<key, text>>]} ELSE Digests

\* signPayload, the digest given
SignedToken(payloadStr, digest) ==
    encode(Utf8Bytes(payloadStr) \o <<DotByte>> \o digest)

\* raw.lastIndexOf(0x2E), counted from 0; -1 when there is none
LastIndexOf(raw, b) ==
    LET at == {i \in DOMAIN raw : raw[i] = b}
    IN  IF at = {} THEN -1 ELSE Max(at) - 1

verifySignedToken(tokenStr, key) ==
    LET raw == decode(tokenStr)
        dotIdx == LastIndexOf(raw, DotByte)
        payloadBuf == SubSeq(raw, 1, dotIdx)
        macBuf == SubSeq(raw, dotIdx + 2, Len(raw))
        payloadStr == Utf8String(payloadBuf)
        expected == Hmac(key, payloadStr)
    IN  IF dotIdx <= 0 THEN [ok |-> FALSE, payload |-> None]
        ELSE IF Len(macBuf) # Len(expected) THEN [ok |-> FALSE, payload |-> None]
        ELSE IF ~safeEqual(macBuf, expected) THEN [ok |-> FALSE, payload |-> None]
        ELSE [ok |-> TRUE, payload |-> ParseJSON(payloadStr)]

\* the payload createStatelessToken signs at time t
StatelessPayload(ttlMs, t) == StringifyIatExp(t, t + ttlMs)

----------------------------------------------------------------------------
(* token/mask.js *)

\* makeMaskedToken, the pad given: pad || (pad XOR secret), encoded
MaskedToken(secret, pad) == encode(pad \o XorBytes(pad, secret))

\* a faulty unmaskToken: the masked half is returned as it is
unmaskTokenNoXor(token) ==
    LET buf == decode(token)
        half == Len(buf) \div 2
    IN  IF Len(buf) = 0 \/ Len(buf) % 2 # 0 THEN None
        ELSE Some(SubSeq(buf, half + 1, Len(buf)))

\* a faulty unmaskToken: the length of the decoded bytes is not looked at
unmaskTokenNoLengthTest(token) ==
    LET buf == decode(token)
        half == Len(buf) \div 2
    IN  Some(XorBytes(SubSeq(buf, 1, half), SubSeq(buf, half + 1, 2 * half)))

\* unmaskToken: None stands for the MalformedToken it throws
unmaskToken(token) ==
    LET buf == decode(token)
        half == Len(buf) \div 2
    IN  IF Len(buf) = 0 \/ Len(buf) % 2 # 0 THEN None
        ELSE Some(XorBytes(SubSeq(buf, 1, half), SubSeq(buf, half + 1, Len(buf))))

----------------------------------------------------------------------------
(* storage/memory.js *)

EmptyMap == [k \in {} |-> 0]

MapDelete(m, k) == [x \in DOMAIN m \ {k} |-> m[x]]

MapSet(m, k, e) == [x \in DOMAIN m \cup {k} |-> IF x = k THEN e ELSE m[x]]

\* get(k) at time t: the value it resolves to and the Map it leaves
\* a faulty get: an entry is dropped from the instant of its expiry on, not after it
StoreGetExpiresEarly(m, k, t) ==
    IF k \notin DOMAIN m THEN [val |-> None, map |-> m]
    ELSE IF TruthyNum(m[k].exp) /\ t >= m[k].exp[1]
         THEN [val |-> None, map |-> MapDelete(m, k)]
    ELSE [val |-> Some(m[k].val), map |-> m]

\* a faulty get: the expiry is left to the cleanup timer
StoreGetKeepsExpired(m, k, t) ==
    IF k \notin DOMAIN m THEN [val |-> None, map |-> m]
    ELSE [val |-> Some(m[k].val), map |-> m]

\* a faulty get: an entry is removed once it is read
StoreGetEvicts(m, k, t) ==
    IF k \notin DOMAIN m THEN [val |-> None, map |-> m]
    ELSE IF TruthyNum(m[k].exp) /\ t > m[k].exp[1]
         THEN [val |-> None, map |-> MapDelete(m, k)]
    ELSE [val |-> Some(m[k].val), map |-> MapDelete(m, k)]

StoreGet(m, k, t) ==
    IF k \notin DOMAIN m THEN [val |-> None, map |-> m]
    ELSE IF TruthyNum(m[k].exp) /\ t > m[k].exp[1]
         THEN [val |-> None, map |-> MapDelete(m, k)]
    ELSE [val |-> Some(m[k].val), map |-> m]

\* a faulty set: an entry already in the Map is kept
StoreSetKeepsFirst(m, k, v, ttlSec, t, wid) ==
    IF k \in DOMAIN m THEN m
    ELSE MapSet(m, k, [val |-> v,
                       exp |-> IF ttlSec # 0 THEN Some(t + ttlSec * MsPerSec) ELSE None,
                       wid |-> wid])

\* set(k, v, ttlSec) at time t: the Map it leaves.  wid numbers the write; the
\* program keeps no such number
StoreSet(m, k, v, ttlSec, t, wid) ==
    MapSet(m, k, [val |-> v,
                  exp |-> IF ttlSec # 0 THEN Some(t + ttlSec * MsPerSec) ELSE None,
                  wid |-> wid])

\* the timer set(k, v, ttlSec) schedules at time t
StoreSetTimers(k, ttlSec, t, wid) ==
    IF ttlSec # 0
    THEN {[key |-> k, due |-> t + ttlSec * MsPerSec + CleanupSlackMs, wid |-> wid]}
    ELSE {}

----------------------------------------------------------------------------
(* middleware.js: createMiddleware *)

AppHost == "app.test"
AppOrigin == "https://app.test"
EvilOrigin == "https://evil.test"
EngineKey == "K1"
OtherKey == "K2"

\* the option sets createMiddleware accepts, over DEFAULTS
\* the stores an engine is built with: the memory store, and an adapter
\* (storage/redis.js) whose client rejects every get, or answers null to every
\* get and rejects every set
StoreKinds == {"memory", "getFails", "setFails"}

Configs ==
    [ stateless : BOOLEAN,
      statelessKey : {EngineKey},
      statelessTTL : {100},
      mask : BOOLEAN,
      originCheck : BOOLEAN,
      store : StoreKinds,
      ttl : {1},
      secretLen : {SecretLen},
      allowedMethods : {{"GET", "HEAD", "OPTIONS"}} ]

\* new URL(str).host for the absolute URLs scheme://host[/...] the model's
\* requests carry; None when the constructor throws
UrlHost(str) ==
    LET seps == {i \in 2..(Len(str) - 2) : SubSeq(str, i, i + 2) = "://"}
        h0 == Min(seps) + 3
        ends == {i \in h0..Len(str) : Ch(str, i) \in {"/", "?", "#"}}
        h1 == IF ends = {} THEN Len(str) ELSE Min(ends) - 1
    IN  IF seps = {} THEN None
        ELSE IF h1 < h0 THEN None
        ELSE Some(SubSeq(str, h0, h1))

\* a || b || c over values that may be missing: the first truthy one
FirstTruthy(vals) ==
    LET at == {i \in DOMAIN vals : Truthy(vals[i])}
    IN  IF at = {} THEN None ELSE vals[Min(at)]

\* UrlHost(h) = host, for a header value that may be missing
HostMatches(h, host) == Truthy(h) /\ UrlHost(h[1]) # None /\ UrlHost(h[1]) = host

\* a faulty origin check: a matching Referer makes up for an Origin that differs
OriginOkEitherHeader(req) ==
    HostMatches(req.origin, req.host) \/ HostMatches(req.referer, req.host)

\* a faulty origin check: the Referer is never looked at
OriginOkNoFallback(req) == HostMatches(req.origin, req.host)

\* verify, lines 143-150: the Origin / Referer comparison
OriginOk(req) ==
    IF Truthy(req.origin)
    THEN UrlHost(req.origin[1]) # None /\ UrlHost(req.origin[1]) = req.host
    ELSE IF Truthy(req.referer)
    THEN UrlHost(req.referer[1]) # None /\ UrlHost(req.referer[1]) = req.host
    ELSE FALSE

\* a faulty verify: a refusal is sent without a return, and next is called too
RanFallsThrough(out, status, text, steps, token, key, stored, m) ==
    [ out |-> out, status |-> status, text |-> text, next |-> TRUE,
      steps |-> steps, token |-> token, key |-> key, stored |-> stored, map |-> m ]

\* what one run of verify did: the outcome, the response (status, text) or the
\* call of next, the steps it took in order, the token and session key it
\* worked with, what the store returned and the Map the run leaves
Ran(out, status, text, steps, token, key, stored, m) ==
    [ out |-> out, status |-> status, text |-> text, next |-> (out = "Accept"),
      steps |-> steps, token |-> token, key |-> key, stored |-> stored, map |-> m ]

verifyStateless(req, token, steps) ==
    LET v == verifySignedToken(token[1], opts.statelessKey)
        exp == PayloadExp(v.payload)
        st == steps \o <<"verifySignedToken">>
    IN  IF ~v.ok
        THEN Ran("TokenInvalid", 403, "CSRF token invalid.", st, token, None, None, map)
        ELSE IF v.payload # None /\ TruthyNum(exp) /\ now > exp[1]
        THEN Ran("TokenExpired", 403, "CSRF token expired.", st, token, None, None, map)
        ELSE Ran("Accept", 0, "", st, token, None, None, map)

\* a faulty catch: the request is let through
verifyCatchFailOpen(steps, token, key) ==
    Ran("Accept", 0, "", steps, token, key, None, map)

\* verify, lines 175-178: the catch of an exception thrown at the last of steps
verifyCatch(steps, token, key) ==
    Ran("InternalError", 500, "CSRF verification error.", steps, token, key, None, map)

\* a faulty verify: the token is decoded before the secret is looked up
verifyStatefulDecodeFirst(req, token, steps) ==
    LET key == FirstTruthy(<<req.session, req.xsid, req.sid>>)
        s1 == steps \o <<"session">>
        provided == IF opts.mask THEN unmaskToken(token[1]) ELSE Some(decode(token[1]))
    IN  IF key = None
        THEN Ran("SessionMissing", 403, "CSRF session missing.", s1, token, key, None, map)
        ELSE IF provided = None
        THEN Ran("TokenMalformed", 403, "CSRF token malformed.", s1 \o <<"decode">>,
                 token, key, None, map)
        ELSE IF opts.store = "getFails"
        THEN verifyCatch(s1 \o <<"decode", "get">>, token, key)
        ELSE
    LET g == StoreGet(map, key[1], now)
        s2 == s1 \o <<"decode", "get">>
    IN  IF ~Truthy(g.val)
        THEN Ran("SecretMissing", 403, "CSRF secret missing.", s2, token, key, g.val, g.map)
        ELSE IF Len(provided[1]) # Len(decode(g.val[1]))
        THEN Ran("LengthMismatch", 403, "CSRF token length mismatch.", s2 \o <<"length">>,
                 token, key, g.val, g.map)
        ELSE IF ~safeEqual(provided[1], decode(g.val[1]))
        THEN Ran("ValueMismatch", 403, "CSRF token mismatch.", s2 \o <<"length", "compare">>,
                 token, key, g.val, g.map)
        ELSE Ran("Accept", 0, "", s2 \o <<"length", "compare">>, token, key, g.val, g.map)

verifyStateful(req, token, steps) ==
    LET key == FirstTruthy(<<req.session, req.xsid, req.sid>>)
        s1 == steps \o <<"session">>
    IN  IF key = None
        THEN Ran("SessionMissing", 403, "CSRF session missing.", s1, token, key, None, map)
        ELSE IF opts.store = "getFails"
        THEN verifyCatch(s1 \o <<"get">>, token, key)
        ELSE
    LET g == StoreGet(map, key[1], now)
        s2 == s1 \o <<"get">>
    IN  IF ~Truthy(g.val)
        THEN Ran("SecretMissing", 403, "CSRF secret missing.", s2, token, key, g.val, g.map)
        ELSE
    LET secret == decode(g.val[1])
        provided == IF opts.mask THEN unmaskToken(token[1]) ELSE Some(decode(token[1]))
        s3 == s2 \o <<"decode">>
    IN  IF provided = None
        THEN Ran("TokenMalformed", 403, "CSRF token malformed.", s3, token, key, g.val, g.map)
        ELSE IF Len(provided[1]) # Len(secret)
        THEN Ran("LengthMismatch", 403, "CSRF token length mismatch.", s3 \o <<"length">>,
                 token, key, g.val, g.map)
        ELSE IF ~safeEqual(provided[1], secret)
        THEN Ran("ValueMismatch", 403, "CSRF token mismatch.", s3 \o <<"length", "compare">>,
                 token, key, g.val, g.map)
        ELSE Ran("Accept", 0, "", s3 \o <<"length", "compare">>, token, key, g.val, g.map)

\* a faulty verify: the stored secret is looked up in stateless mode too
verifyTokenAlwaysStateful(req, token, st) ==
    IF token = None
    THEN Ran("TokenMissing", 403, "CSRF token missing.", st, token, None, None, map)
    ELSE verifyStateful(req, token, st)

\* the token is extracted and the mode's check runs on it
verifyToken(req, token, st) ==
    IF token = None
    THEN Ran("TokenMissing", 403, "CSRF token missing.", st, token, None, None, map)
    ELSE IF opts.stateless THEN verifyStateless(req, token, st)
    ELSE verifyStateful(req, token, st)

\* a faulty extraction: the body field is looked at before the header
verifyCheckedBodyFirst(req, steps) ==
    verifyToken(req, FirstTruthy(<<req.body, req.header, req.query>>), steps \o <<"extract">>)

\* verify, lines 153-174: token extraction and what follows it
verifyChecked(req, steps) ==
    verifyToken(req, FirstTruthy(<<req.header, req.body, req.query>>), steps \o <<"extract">>)

\* a faulty verify: the origin check runs before the method is looked at
verifyOriginFirst(req) ==
    IF opts.originCheck /\ ~OriginOk(req)
    THEN Ran("OriginMismatch", 403, "CSRF: origin/referrer mismatch.",
             <<"origin">>, None, None, None, map)
    ELSE IF req.method \in opts.allowedMethods
    THEN Ran("Accept", 0, "", <<"origin", "method">>, None, None, None, map)
    ELSE verifyChecked(req, <<"origin", "method">>)

\* verify, lines 139-174
verify(req) ==
    IF req.method \in opts.allowedMethods
    THEN Ran("Accept", 0, "", <<"method">>, None, None, None, map)
    ELSE IF opts.originCheck
    THEN IF ~OriginOk(req)
         THEN Ran("OriginMismatch", 403, "CSRF: origin/referrer mismatch.",
                  <<"method", "origin">>, None, None, None, map)
         ELSE verifyChecked(req, <<"method", "origin">>)
    ELSE verifyChecked(req, <<"method">>)

----------------------------------------------------------------------------
(* middleware.js: getOrCreateSecret and token *)

\* bytes of a generated session id: randomBytes(16)
SidLen == 16

\* the session ids encode(randomBytes(16)) may give in the model
FreshSids == {encode([i \in 1..SidLen |-> v]) : v \in {0, 255}}

\* lines 77-86: the keys the call may work with (a generated one is any of
\* FreshSids, and goes to the client in the session-id cookie)
MintKeys(req) ==
    LET key == FirstTruthy(<<req.session, req.xsid>>)
    IN  IF key # None THEN {key[1]}
        ELSE IF Truthy(req.sid) THEN {req.sid[1]}
        ELSE FreshSids

\* line 116: the tokens token() may return for the secret
TokensOf(secret) ==
    IF opts.mask THEN {MaskedToken(secret, pad) : pad \in RandomBytes(Len(secret))}
    ELSE {encode(secret)}

\* a token the library returned: who made it (by), the session or signing key,
\* and what it was made from; for a token of a stored secret, wid is the write
\* the secret came from and ret the number of writes done when the call returned
Issued(tok, by, key, secret, wid, text, ttlMs, iat) ==
    [ tok |-> tok, by |-> by, key |-> key, secret |-> secret, wid |-> wid,
      text |-> text, ttl |-> ttlMs, iat |-> iat,
      ret |-> IF secret = <<>> THEN 0 ELSE writes ]

Procs == {"p1", "p2"}

Idle == [op |-> "idle"]

Pending == {p \in Procs : pend[p] # None}

\* the mint calls whose store.set is done and whose `await` is to resume: the
\* memory store's promise is already resolved, so they resume before any timer
\* or request handler runs
Returning == {p \in Procs : Len(pend[p]) = 4}

----------------------------------------------------------------------------
(* Requests *)

Request(method, origin, referer, host, header, body, query, session, xsid, sid) ==
    [ method |-> method, origin |-> origin, referer |-> referer, host |-> host,
      header |-> header, body |-> body, query |-> query,
      session |-> session, xsid |-> xsid, sid |-> sid ]

\* a submitted value that is no token
NotAToken == "not-a-valid-token"

\* the token texts a client may submit: the tokens returned so far and others
TokenPool == {r.tok : r \in issued} \cup {NotAToken}

\* the session keys a client may present
KeyPool == DOMAIN map \cup {r.key : r \in {q \in issued : q.secret # <<>>}}

\* the requests for a token
MintRequests ==
    {Request("GET", None, None, Some(AppHost), None, None, None, session, None, sid) :
        session \in {None, Some("s1")},
        sid \in {None} \cup {Some(k) : k \in DOMAIN map \cap FreshSids}}

\* the requests of the life-cycle specification: one place for the token, one
\* for the session key
LifeRequests ==
    {Request(method, Some(origin), None, Some(AppHost), header, None, None, session, None, None) :
        method \in {"POST"}, origin \in {AppOrigin, EvilOrigin},
        header \in {None} \cup {Some(t) : t \in TokenPool},
        session \in {None} \cup {Some(k) : k \in KeyPool}}

----------------------------------------------------------------------------
(* The actions *)

Init ==
    /\ opts \in {c \in Configs : c.stateless => (c.mask /\ c.store = "memory")}
    /\ now = StartTime
    /\ map = EmptyMap
    /\ timers = {}
    /\ mac = EmptyMap
    /\ issued = {}
    /\ pend = [p \in Procs |-> None]
    /\ writes = 0
    /\ last = Idle
    /\ cin = Idle
    /\ sets = EmptyMap

\* a faulty middleware: next is called at the end of the try block
MintNextsOnSuccess(error) == IF error = "" THEN 1 ELSE 0

\* middleware, lines 123-128: the calls of next, whatever was thrown (error)
MintNexts(error) == 1

\* what one run of the middleware did: the token token() returned, if any,
\* what threw ("" for nothing), whether the token cookie was set, the calls of next
MintDone(p, token, error) ==
    [ op |-> "mint", proc |-> p, token |-> token, error |-> error,
      cookie |-> (error = ""), nexts |-> MintNexts(error) ]

\* whether res.cookie does its work or throws
CookieResults == BOOLEAN

\* the most recent set of key k noted: its value, expiry and write number
NoteSet(h, k, v, ttlSec, t, wid) ==
    (k :> [val |-> v, exp |-> IF ttlSec # 0 THEN Some(t + ttlSec * MsPerSec) ELSE None,
           wid |-> wid, del |-> FALSE]) @@ h

\* the middleware up to `await opts.store.get(key)` and, when a secret is
\* stored or something throws, to its end
MintGet(p, req) ==
    /\ last = Idle /\ ~opts.stateless /\ pend[p] = None
    /\ p = "p1" \/ pend["p1"] # None
    /\ Cardinality(issued) + Cardinality(Pending) < MaxIssued
    /\ \E key \in MintKeys(req) :
        \E sidOk \in IF key \in FreshSids /\ req.sid # Some(key) THEN CookieResults ELSE {TRUE} :
        IF ~sidOk
        THEN /\ last' = MintDone(p, None, "sidCookie")
             /\ UNCHANGED <<map, issued, pend>>
        ELSE IF opts.store = "getFails"
        THEN /\ last' = MintDone(p, None, "get")
             /\ UNCHANGED <<map, issued, pend>>
        ELSE
        LET g == StoreGet(map, key, now)
        IN  /\ map' = g.map
            /\ IF Truthy(g.val)
               THEN /\ \E tok \in TokensOf(decode(g.val[1])) :
                       /\ issued' = issued \cup
                              {Issued(tok, "token", key, decode(g.val[1]), map[key].wid, "", 0, now)}
                       /\ \E ok \in CookieResults :
                              last' = MintDone(p, Some(tok), IF ok THEN "" ELSE "cookie")
                    /\ pend' = pend
               ELSE /\ writes + Cardinality(Pending) < MaxWrites
                    /\ pend' = [pend EXCEPT ![p] = Some(key)]
                    /\ issued' = issued
                    /\ last' = last
    /\ UNCHANGED <<opts, now, timers, mac, writes, cin, sets>>

\* the middleware from `opts.store.set(key, encode(secret), opts.ttl)` to the
\* await of its result, or to its end when set throws
MintSet(p) ==
    /\ last = Idle /\ Len(pend[p]) = 1
    /\ IF opts.store = "setFails"
       THEN /\ last' = MintDone(p, None, "set")
            /\ pend' = [pend EXCEPT ![p] = None]
            /\ UNCHANGED <<map, timers, writes, sets>>
       ELSE /\ \E secret \in RandomBytes(opts.secretLen) :
                /\ map' = StoreSet(map, pend[p][1], encode(secret), opts.ttl, now, writes + 1)
                /\ sets' = NoteSet(sets, pend[p][1], encode(secret), opts.ttl, now, writes + 1)
                /\ pend' = [pend EXCEPT ![p] = <<pend[p][1], secret, writes + 1, now>>]
            /\ timers' = timers \cup StoreSetTimers(pend[p][1], opts.ttl, now, writes + 1)
            /\ writes' = writes + 1
            /\ last' = last
    /\ UNCHANGED <<opts, now, mac, issued, cin>>

\* the middleware after `await opts.store.set(...)`: getOrCreateSecret returns
\* { key, secret }, token() makes the token of that secret, the cookie is set
MintReturn(p) ==
    /\ last = Idle /\ Len(pend[p]) = 4
    /\ \E tok \in TokensOf(pend[p][2]) :
        /\ issued' = issued \cup
              {Issued(tok, "token", pend[p][1], pend[p][2], pend[p][3], "", 0, pend[p][4])}
        /\ \E ok \in CookieResults :
              last' = MintDone(p, Some(tok), IF ok THEN "" ELSE "cookie")
    /\ pend' = [pend EXCEPT ![p] = None]
    /\ UNCHANGED <<opts, now, map, timers, mac, writes, cin, sets>>

\* signPayload(text, key) by `by`, its HMAC being d
Signing(by, text, key, ttlMs, d) ==
    /\ last = Idle
    /\ Cardinality(issued) < MaxIssued
    /\ mac' = MacWith(key, text, d)
    /\ issued' = issued \cup {Issued(SignedToken(text, d), by, key, <<>>, 0, text, ttlMs, now)}
    /\ UNCHANGED <<opts, now, map, timers, pend, writes, cin, sets>>

\* signPayload called outside the middleware, its HMAC drawn when it is the
\* first of the text
Sign(by, text, key, ttlMs) ==
    /\ last = Idle
    /\ \E d \in MacChoices(key, text) : Signing(by, text, key, ttlMs, d)
    /\ UNCHANGED last

\* the middleware of a stateless engine: token() is
\* createStatelessToken(statelessTTL, statelessKey)
MintStateless ==
    /\ opts.stateless /\ last = Idle
    /\ LET text == StatelessPayload(opts.statelessTTL, now)
       IN  \E d \in MacChoices(opts.statelessKey, text) :
            /\ Signing("token", text, opts.statelessKey, opts.statelessTTL, d)
            /\ \E ok \in CookieResults :
                  last' = MintDone("p1", Some(SignedToken(text, d)), IF ok THEN "" ELSE "cookie")

\* the ttlMs a caller may pass to createStatelessToken
TtlInputs == {-1000, 0 - now}

\* createStatelessToken(ttlMs, key), called by the application
CreateStatelessToken ==
    /\ opts.stateless
    /\ \E ttlMs \in TtlInputs, key \in {EngineKey, OtherKey} :
          Sign("createStatelessToken", StatelessPayload(ttlMs, now), key, ttlMs)

\* the payload texts a caller may pass to signPayload
SignTexts == {"{\"iat\":0,\"exp\":0}", "{}", "oops"}

\* signPayload(text, key), called by the application
SignPayload ==
    /\ opts.stateless
    /\ \E text \in SignTexts : Sign("signPayload", text, opts.statelessKey, 0)

\* one run of verify on a request of R
VerifyOf(R) ==
    /\ last = Idle /\ Returning = {}
    /\ \E req \in R :
        LET r == verify(req)
        IN  /\ last' = [op |-> "verify", req |-> req, at |-> now, before |-> map, run |-> r]
            /\ map' = r.map
    /\ UNCHANGED <<opts, now, timers, mac, issued, pend, writes, cin, sets>>

Verify == VerifyOf(LifeRequests)

\* the run's response has gone out (or next has run): its record is dropped
Settle ==
    /\ last # Idle
    /\ last' = Idle
    /\ UNCHANGED <<opts, now, map, timers, mac, issued, pend, writes, cin, sets>>

\* the instants at which an answer of the program may change: the expiry of a
\* stored secret or of a signed payload, the millisecond after it, and the
\* instants the cleanup timers are due
Instants ==
    LET exps == {map[k].exp[1] : k \in {j \in DOMAIN map : map[j].exp # None}}
                \cup {r.iat + r.ttl : r \in {q \in issued : q.by # "signPayload" /\ q.secret = <<>>}}
    IN  exps \cup {e + 1 : e \in exps} \cup {t.due : t \in timers}

\* time passes, up to the next of these instants
Tick ==
    /\ last = Idle /\ Returning = {}
    /\ \E t \in Instants :
          /\ t > now
          /\ \A u \in Instants : u > now => t <= u
          /\ now' = t
    /\ UNCHANGED <<opts, map, timers, mac, issued, pend, writes, last, cin, sets>>

\* a cleanup timer of the store runs: () => map.delete(k)
TimerFire ==
    /\ last = Idle /\ Returning = {}
    /\ \E t \in timers :
        /\ now >= t.due
        /\ map' = MapDelete(map, t.key)
        /\ timers' = timers \ {t}
    /\ UNCHANGED <<opts, now, mac, issued, pend, writes, last, cin, sets>>

Next ==
    \/ \E p \in Procs, req \in MintRequests : MintGet(p, req)
    \/ \E p \in Procs : MintSet(p)
    \/ \E p \in Procs : MintReturn(p)
    \/ MintStateless
    \/ CreateStatelessToken
    \/ SignPayload
    \/ Verify
    \/ Settle
    \/ Tick
    \/ TimerFire

Spec == Init /\ [][Next]_vars

----------------------------------------------------------------------------
(* The decision procedure of verify, over the requests a client can send *)

Methods == {"GET", "HEAD", "OPTIONS", "POST", "DELETE"}

OriginValues == {None, Some(""), Some(AppOrigin), Some(EvilOrigin), Some("null")}

RefererValues ==
    {None, Some(""), Some("https://app.test/form"), Some("https://evil.test/x"), Some("form")}

\* a token together with the session key its holder presents
Bearers ==
    {[tok |-> Some(r.tok), key |-> IF r.secret # <<>> THEN Some(r.key) ELSE None] : r \in issued}
    \cup {[tok |-> Some(NotAToken), key |-> k] : k \in {None} \cup {Some(j) : j \in KeyPool}}

\* every pair of Origin and Referer values
OriginRequests ==
    {Request(method, origin, referer, Some(AppHost), b.tok, None, None, b.key, None, None) :
        method \in {"GET", "POST"}, origin \in OriginValues, referer \in RefererValues,
        b \in Bearers}

\* every filling of the three places a token is looked for
ExtractRequests ==
    UNION {{Request("POST", Some(AppOrigin), None, Some(AppHost), header, body, query,
                    b.key, None, None) :
                header \in {None, Some(""), Some(NotAToken), b.tok},
                body \in {None, Some(""), Some(NotAToken), b.tok},
                query \in {None, Some(""), Some(NotAToken), b.tok}} : b \in Bearers}

\* every method, from the application's origin, from another, and from none
MethodRequests ==
    UNION {{Request(method, origin, None, Some(AppHost), header, None, None, b.key, None, None) :
                method \in Methods, origin \in {None, Some(AppOrigin), Some(EvilOrigin)},
                header \in {None, b.tok}} : b \in Bearers}

\* strings that decode to no byte, to one and to three
OddTokens == {"A", "AA", "AAAA"}

\* a string whose decoded length is zero or odd, under every session key
MalformedRequests ==
    {Request("POST", Some(AppOrigin), None, Some(AppHost), Some(t), None, None, session,
             None, None) :
        t \in OddTokens, session \in {None} \cup {Some(k) : k \in KeyPool}}

\* every filling of the three places a session key is looked for
SessionRequests ==
    {Request("POST", Some(AppOrigin), None, Some(AppHost), Some(t), None, None,
             session, xsid, sid) :
        t \in TokenPool,
        session \in {None, Some(""), Some("s1")},
        xsid \in {None, Some(""), Some("s1")},
        sid \in {None, Some(""), Some("s1")}}

AnyRequests ==
    OriginRequests \cup ExtractRequests \cup MethodRequests \cup MalformedRequests
        \cup SessionRequests

\* the ttlMs of a token that is expired when it is made
ExpiredTtl == 0 - MsPerSec

\* createStatelessToken(-1000, statelessKey), called by the application
CreateExpired ==
    /\ opts.stateless
    /\ Sign("createStatelessToken", StatelessPayload(ExpiredTtl, now), opts.statelessKey, ExpiredTtl)

\* a set on the store of a stateless engine by another user of that store
\* (opts.store is the caller's object, or the shared default of DEFAULTS)
OtherSet ==
    /\ opts.stateless /\ last = Idle
    /\ writes < MaxWrites /\ "s1" \notin DOMAIN map
    /\ \E secret \in RandomBytes(opts.secretLen) :
        map' = StoreSet(map, "s1", encode(secret), opts.ttl, now, writes + 1)
    /\ timers' = timers \cup StoreSetTimers("s1", opts.ttl, now, writes + 1)
    /\ writes' = writes + 1
    /\ UNCHANGED <<opts, now, mac, issued, pend, last, cin, sets>>

VerifyAny == VerifyOf(AnyRequests)

NextRequest ==
    \/ \E req \in MintRequests : MintGet("p1", req)
    \/ MintSet("p1")
    \/ MintReturn("p1")
    \/ MintStateless
    \/ CreateExpired
    \/ OtherSet
    \/ VerifyAny
    \/ Settle

SpecRequest == Init /\ [][NextRequest]_vars

----------------------------------------------------------------------------
(* The signature functions of token/stateless.js, on their own *)

\* the payload strings signed: JSON and not, empty, holding the byte 0x2E
CodecPayloads == {"", "{}", "{\"iat\":0,\"exp\":0}", "{\"exp\":5}", "oops", "a.b"}

\* signPayload(text, key)
CodecSign ==
    /\ cin = Idle
    /\ \E text \in CodecPayloads, key \in {EngineKey, OtherKey} :
        /\ <<key, text>> \in DOMAIN mac \/ Cardinality(DOMAIN mac) < MaxIssued
        /\ \E d \in MacChoices(key, text) :
            /\ mac' = MacWith(key, text, d)
            /\ cin' = [op |-> "signPayload", text |-> text, key |-> key,
                       tok |-> SignedToken(text, d)]
    /\ UNCHANGED <<opts, now, map, timers, issued, pend, writes, last, sets>>

\* verifySignedToken(tok, key) on the token signPayload returned, under the
\* key it was signed with or the other one
CodecVerify ==
    /\ cin # Idle /\ cin.op = "signPayload"
    /\ \E key \in {EngineKey, OtherKey} :
          cin' = [op |-> "verifySignedToken", text |-> cin.text, signedWith |-> cin.key,
                  key |-> key, tok |-> cin.tok, res |-> verifySignedToken(cin.tok, key)]
    /\ UNCHANGED <<opts, now, map, timers, mac, issued, pend, writes, last, sets>>

\* the character of the URL-safe alphabet for a sextet
UrlChar(i) == IF i = 62 THEN "-" ELSE IF i = 63 THEN "_" ELSE B64Std[i + 1]

\* the characters put in the place of c: 'A' or 'B', as the tests do, the next
\* character of the alphabet and the one half the alphabet away
Replacements(c) ==
    ({"A", "B"} \cup {UrlChar((Unbase64(c) + 1) % 64), UrlChar((Unbase64(c) + 32) % 64)}) \ {c}

\* str with its i-th character replaced by c
ReplaceAt(str, i, c) == SubSeq(str, 1, i - 1) \o c \o SubSeq(str, i + 1, Len(str))

\* the final character of the token signPayload returned is replaced, and
\* verifySignedToken runs on the result under the signing key
CodecTamperSigned ==
    /\ cin # Idle /\ cin.op = "signPayload"
    /\ \E c \in Replacements(Ch(cin.tok, Len(cin.tok))) :
        LET tampered == ReplaceAt(cin.tok, Len(cin.tok), c)
        IN  cin' = [op |-> "tamperSigned", text |-> cin.text, key |-> cin.key,
                    tok |-> cin.tok, tampered |-> tampered,
                    res |-> verifySignedToken(tampered, cin.key)]
    /\ UNCHANGED <<opts, now, map, timers, mac, issued, pend, writes, last, sets>>

\* the secrets and pads the mask codec is run on
MaskInputs == UNION {RandomBytes(n) : n \in 1..MaxMaskLen}

\* makeMaskedToken(secret), its pad drawn.  The mask codec has no part in
\* signing: it is run from the states in which nothing is signed
CodecMask ==
    /\ cin = Idle /\ DOMAIN mac = {}
    /\ \E secret \in MaskInputs :
        \E pad \in RandomBytes(Len(secret)) :
            cin' = [op |-> "makeMaskedToken", secret |-> secret, pad |-> pad,
                    tok |-> MaskedToken(secret, pad)]
    /\ UNCHANGED <<opts, now, map, timers, mac, issued, pend, writes, last, sets>>

\* unmaskToken(tok) on the token makeMaskedToken returned
CodecUnmask ==
    /\ cin # Idle /\ cin.op = "makeMaskedToken"
    /\ cin' = [op |-> "unmaskToken", secret |-> cin.secret, pad |-> cin.pad,
                tok |-> cin.tok, res |-> unmaskToken(cin.tok)]
    /\ UNCHANGED <<opts, now, map, timers, mac, issued, pend, writes, last, sets>>

\* one character of the token makeMaskedToken returned is replaced, and
\* unmaskToken runs on the result
CodecTamperMasked ==
    /\ cin # Idle /\ cin.op = "makeMaskedToken"
    /\ \E i \in 1..Len(cin.tok) :
        \E c \in Replacements(Ch(cin.tok, i)) :
            LET tampered == ReplaceAt(cin.tok, i, c)
            IN  cin' = [op |-> "tamperMasked", secret |-> cin.secret, tok |-> cin.tok,
                        at |-> i, tampered |-> tampered, res |-> unmaskToken(tampered)]
    /\ UNCHANGED <<opts, now, map, timers, mac, issued, pend, writes, last, sets>>

\* the operations whose result ends a run of the codec
CodecResults == {"verifySignedToken", "tamperSigned", "unmaskToken", "tamperMasked"}

\* the result is dropped
CodecDone ==
    /\ cin # Idle /\ cin.op \in CodecResults
    /\ cin' = Idle
    /\ UNCHANGED <<opts, now, map, timers, mac, issued, pend, writes, last, sets>>

NextCodec ==
    \/ CodecSign
    \/ CodecVerify
    \/ CodecTamperSigned
    \/ CodecMask
    \/ CodecUnmask
    \/ CodecTamperMasked
    \/ CodecDone

SpecCodec == Init /\ [][NextCodec]_vars

----------------------------------------------------------------------------
(* The memory store of storage/memory.js, on its own *)

\* the keys, values and ttlSec arguments of the calls (0: no expiry)
StoreKeys == {"k1", "ttlkey"}

StoreValues == {"v1", "val"}

StoreTtls == {0, 1, 2}

\* await store.set(k, v, ttlSec)
StoreOpSet ==
    /\ last = Idle
    /\ writes < MaxWrites
    /\ \E k \in StoreKeys, v \in StoreValues, ttlSec \in StoreTtls :
        /\ map' = StoreSet(map, k, v, ttlSec, now, writes + 1)
        /\ timers' = timers \cup StoreSetTimers(k, ttlSec, now, writes + 1)
        /\ sets' = NoteSet(sets, k, v, ttlSec, now, writes + 1)
    /\ writes' = writes + 1
    /\ UNCHANGED <<opts, now, mac, issued, pend, last, cin>>

\* await store.get(k): the record keeps the Map and the history of the calls
\* as they were when it ran
StoreOpGet ==
    /\ last = Idle
    /\ \E k \in StoreKeys :
        LET g == StoreGet(map, k, now)
        IN  /\ map' = g.map
            /\ last' = [ op |-> "get", key |-> k, val |-> g.val, at |-> now,
                         before |-> map, note |-> sets ]
    /\ UNCHANGED <<opts, now, timers, mac, issued, pend, writes, cin, sets>>

\* await store.del(k)
StoreOpDel ==
    /\ last = Idle
    /\ \E k \in DOMAIN sets :
        /\ ~sets[k].del
        /\ map' = MapDelete(map, k)
        /\ sets' = [sets EXCEPT ![k].del = TRUE]
    /\ UNCHANGED <<opts, now, timers, mac, issued, pend, writes, last, cin>>

NextStore ==
    \/ StoreOpSet
    \/ StoreOpGet
    \/ StoreOpDel
    \/ Settle
    \/ Tick
    \/ TimerFire

SpecStore == Init /\ [][NextStore]_vars

----------------------------------------------------------------------------
(* middleware.js: the constructor createMiddleware(userOpts) *)

\* JavaScript values are written as their source text; Absent says that
\* userOpts has no such property
Absent == "absent"

JsFalsy == {"undefined", "null", "false", "''"}

Falsy(v) == v \in JsFalsy

\* the options the two tests of the constructor read
DEFAULTS == [stateless |-> "false", store |-> "createMemoryStore()", statelessKey |-> "null"]

\* memory stores the caller made: const storeA = createMemoryStore(), ...
OwnStores == {"storeA", "storeB"}

\* stores: the default one (the object DEFAULTS made when the module was
\* loaded), one with get only, the caller's own
StoresWithGet == {"createMemoryStore()", "{ get }"} \cup OwnStores

UserOpts ==
    [ stateless : {Absent, "undefined", "false", "true"},
      store : {Absent, "undefined", "null", "{}"} \cup StoresWithGet,
      statelessKey : {Absent, "undefined", "null", "''", "'K1'"} ]

\* a faulty merge: the defaults are laid over the caller's options
AssignDefaultsLast(defaults, userOpts) == defaults

\* Object.assign({}, DEFAULTS, userOpts): a property of userOpts, even an
\* undefined one, replaces the default
Assign(defaults, userOpts) ==
    [f \in DOMAIN defaults |-> IF userOpts[f] = Absent THEN defaults[f] ELSE userOpts[f]]

\* !opts.store || !opts.store.get
StoreUnusable(o) == Falsy(o.store) \/ o.store \notin StoresWithGet

\* a faulty constructor: it tests nothing
createMiddlewareUnchecked(userOpts) ==
    [thrown |-> None, engine |-> Some(Assign(DEFAULTS, userOpts))]

\* what the call throws, or the engine { middleware, verify } it returns
createMiddleware(userOpts) ==
    LET o == Assign(DEFAULTS, userOpts)
    IN  IF Falsy(o.stateless) /\ StoreUnusable(o)
        THEN [thrown |-> Some("store required when stateless=false."), engine |-> None]
        ELSE IF ~Falsy(o.stateless) /\ Falsy(o.statelessKey)
        THEN [thrown |-> Some("statelessKey required when stateless=true"), engine |-> None]
        ELSE [thrown |-> None, engine |-> Some(o)]

\* the option a request to the engine cannot do without, when it is missing:
\* stateless runs sign and verify with opts.statelessKey, stateful runs call
\* opts.store.get
RequestFault(o) ==
    IF ~Falsy(o.stateless)
    THEN IF Falsy(o.statelessKey) THEN Some("statelessKey") ELSE None
    ELSE IF StoreUnusable(o) THEN Some("store") ELSE None

ConfigConstruct ==
    /\ cin = Idle
    /\ \E u \in UserOpts :
        cin' = [op |-> "createMiddleware", userOpts |-> u, res |-> createMiddleware(u)]
    /\ UNCHANGED <<opts, now, map, timers, mac, issued, pend, writes, last, sets>>

\* a request to a function of the engine the constructor returned
ConfigRequest ==
    /\ cin.op = "createMiddleware"
    /\ cin.res.engine # None
    /\ \E fn \in {"middleware", "verify"} :
        cin' = [op |-> "request", fn |-> fn, userOpts |-> cin.userOpts,
                engine |-> cin.res.engine[1], fault |-> RequestFault(cin.res.engine[1])]
    /\ UNCHANGED <<opts, now, map, timers, mac, issued, pend, writes, last, sets>>

ConfigDone ==
    /\ cin.op \in {"createMiddleware", "request"}
    /\ cin' = Idle
    /\ UNCHANGED <<opts, now, map, timers, mac, issued, pend, writes, last, sets>>

NextConfig ==
    \/ ConfigConstruct
    \/ ConfigRequest
    \/ ConfigDone

SpecConfig == Init /\ [][NextConfig]_vars

----------------------------------------------------------------------------
(* The stateful check of verify, over session keys, tokens and time *)

\* the requests for a token of a client with a session
SessionMintRequests == {req \in MintRequests : req.session # None}

\* the session keys of the requests: "s1" is the session the tokens are minted
\* for, "s2" one that never asked for a token
SessionKeys == {"s1", "s2"}

\* a token or a string that decodes to no byte, with the three places a
\* session key is looked for filled with the same or with different keys
StatefulRequests ==
    {Request("POST", Some(AppOrigin), None, Some(AppHost), Some(t), None, None,
             session, xsid, sid) :
        t \in TokenPool \cup {"A"},
        session \in {None, Some("s1")},
        xsid \in {None} \cup {Some(k) : k \in SessionKeys},
        sid \in {None, Some(""), Some("s2")}}

VerifyStateful == VerifyOf(StatefulRequests)

NextStateful ==
    \/ \E req \in SessionMintRequests : MintGet("p1", req)
    \/ MintSet("p1")
    \/ MintReturn("p1")
    \/ VerifyStateful
    \/ Settle
    \/ Tick
    \/ TimerFire

SpecStateful == Init /\ [][NextStateful]_vars

----------------------------------------------------------------------------
(* Several engines of one process, and the stores they use *)

Engines == {"e1", "e2"}

\* every memory store of the process: the one of DEFAULTS and the caller's
MemStores == {DEFAULTS.store} \cup OwnStores

\* the engine createMiddleware returns for a store option and a mask option
Engine(store, mask) ==
    [ opts |-> createMiddleware([stateless |-> Absent, store |-> store,
                                 statelessKey |-> Absent]).engine[1],
      given |-> store, mask |-> mask ]

\* the engines are constructed, each with or without a store of its own; the
\* stores are empty
SharedConstruct ==
    /\ cin = Idle /\ last = Idle
    /\ \E st \in [Engines -> {Absent} \cup OwnStores], mk \in [Engines -> BOOLEAN] :
        cin' = [ op |-> "engines",
                 eng |-> [e \in Engines |-> Engine(st[e], mk[e])],
                 maps |-> [s \in MemStores |-> EmptyMap],
                 toks |-> {} ]
    /\ UNCHANGED <<opts, now, map, timers, mac, issued, pend, writes, last, sets>>

\* token() of engine e for session key "s1": getOrCreateSecret on the engine's
\* store, then the token of the secret
SharedMint(e) ==
    /\ cin.op = "engines" /\ last = Idle
    /\ Cardinality(cin.toks) < MaxIssued
    /\ LET s == cin.eng[e].opts.store
           g == StoreGet(cin.maps[s], "s1", now)
       IN  \E fresh \in RandomBytes(SecretLen), pad \in RandomBytes(SecretLen) :
            LET secret == IF Truthy(g.val) THEN decode(g.val[1]) ELSE fresh
                m == IF Truthy(g.val) THEN g.map
                     ELSE StoreSet(g.map, "s1", encode(secret), opts.ttl, now,
                                   Cardinality(cin.toks) + 1)
                tok == IF cin.eng[e].mask THEN MaskedToken(secret, pad) ELSE encode(secret)
            IN  cin' = [cin EXCEPT !.maps[s] = m,
                                   !.toks = @ \cup {[tok |-> tok, by |-> e, secret |-> secret]}]
    /\ UNCHANGED <<opts, now, map, timers, mac, issued, pend, writes, last, sets>>

\* the stateful check of verify (lines 166-174) by an engine with mask option
\* mask on the Map m of its store, for session key k and token tok
SharedOutcome(mask, m, k, tok) ==
    LET g == StoreGet(m, k, now)
        provided == IF mask THEN unmaskToken(tok) ELSE Some(decode(tok))
    IN  IF ~Truthy(g.val) THEN "SecretMissing"
        ELSE IF provided = None THEN "TokenMalformed"
        ELSE IF Len(provided[1]) # Len(decode(g.val[1])) THEN "LengthMismatch"
        ELSE IF ~safeEqual(provided[1], decode(g.val[1])) THEN "ValueMismatch"
        ELSE "Accept"

\* verify of engine e on a request with session key "s1" and a minted token
SharedVerify(e) ==
    /\ cin.op = "engines" /\ last = Idle
    /\ \E r \in cin.toks :
        last' = [ op |-> "sharedVerify", engine |-> e, tok |-> r.tok,
                  out |-> SharedOutcome(cin.eng[e].mask,
                                        cin.maps[cin.eng[e].opts.store], "s1", r.tok) ]
    /\ UNCHANGED <<opts, now, map, timers, mac, issued, pend, writes, cin, sets>>

NextShared ==
    \/ SharedConstruct
    \/ \E e \in Engines : SharedMint(e)
    \/ \E e \in Engines : SharedVerify(e)
    \/ Settle

SpecShared == Init /\ [][NextShared]_vars

----------------------------------------------------------------------------
(* Properties *)

\* a run of verify has just ended, and its record is in last
Verified == last.op = "verify"

Bypassed(req) == req.method \in opts.allowedMethods

\* the request gets past the origin check, or there is none
PastOrigin(req) == ~opts.originCheck \/ OriginOk(req)

\* the token and the session key the request carries
Carried(req) == FirstTruthy(<<req.header, req.body, req.query>>)
Resolved(req) == FirstTruthy(<<req.session, req.xsid, req.sid>>)

\* the secret the token r was minted from was still stored under r.key, by the
\* same write and unexpired, in Map m at time t
Intact(r, m, t) ==
    /\ r.key \in DOMAIN m
    /\ m[r.key].wid = r.wid
    /\ m[r.key].exp = None \/ t <= m[r.key].exp[1]

\* the tokens minted by a stateful engine
Minted == {r \in issued : r.secret # <<>>}

\* the run in last was on a request that carries the token of r and resolves to
\* its session key, while its secret was intact
RanOnIntact(r) ==
    /\ Carried(last.req) = Some(r.tok)
    /\ Resolved(last.req) = Some(r.key)
    /\ Intact(r, last.before, last.at)

\* C1, as stated: in stateful mode a non-bypassed request that carries a minted
\* token and resolves to its session key is accepted as long as the secret is
\* neither overwritten, deleted nor expired
C1_MintedTokenAccepted ==
    (Verified /\ ~opts.stateless /\ ~Bypassed(last.req)) =>
        \A r \in Minted : RanOnIntact(r) => last.run.out = "Accept"

\* C1, amended: in stateful mode a non-bypassed request that gets past the
\* origin check, carries a minted token and resolves to its session key is
\* accepted as long as the secret is neither overwritten, deleted nor expired,
\* whichever of the tokens minted from the secret it carries
C1_MintedTokenAcceptedPastOrigin ==
    (Verified /\ ~opts.stateless /\ ~Bypassed(last.req) /\ PastOrigin(last.req)) =>
        \A r \in Minted : RanOnIntact(r) => last.run.out = "Accept"

\* an earlier token is accepted after a later one was minted, with another pad,
\* from the same secret, the origin check being on
C1_Witness ==
    /\ Verified /\ ~opts.stateless /\ opts.mask /\ opts.originCheck
    /\ ~Bypassed(last.req)
    /\ last.run.out = "Accept"
    /\ \E r1, r2 \in Minted :
        /\ RanOnIntact(r1)
        /\ r2.key = r1.key /\ r2.wid = r1.wid /\ r2.tok # r1.tok /\ r2.iat > r1.iat

\* the secret a submitted token stands for: unmaskToken or decode, line 169
Candidate(tok) == IF opts.mask THEN unmaskToken(tok) ELSE Some(decode(tok))

\* C2: in stateful mode a non-bypassed request is accepted only if its token
\* decodes to the bytes of the secret the store returned for its session key
\* during the run; a string that is no token is never accepted
C2_AcceptOnlyStoredSecret ==
    (Verified /\ ~opts.stateless /\ ~Bypassed(last.req) /\ last.run.out = "Accept") =>
        LET key == Resolved(last.req)
            tok == Carried(last.req)
        IN  /\ key # None /\ tok # None
            /\ key[1] \in DOMAIN last.before
            /\ last.run.stored = Some(last.before[key[1]].val)
            /\ Candidate(tok[1]) # None
            /\ Len(Candidate(tok[1])[1]) = Len(decode(last.run.stored[1]))
            /\ Candidate(tok[1])[1] = decode(last.run.stored[1])
            /\ tok[1] # NotAToken

\* a token is accepted under a key whose secret was written twice, while a
\* token minted from the earlier secret is still around
C2_Witness ==
    /\ Verified /\ ~opts.stateless /\ ~Bypassed(last.req)
    /\ last.run.out = "Accept"
    /\ \E r \in Minted :
        /\ Resolved(last.req) = Some(r.key)
        /\ r.wid # last.before[r.key].wid
        /\ r.secret # decode(last.before[r.key].val)

\* C3: a request whose method is in allowedMethods is accepted at once: no
\* origin check, no token extraction, no store read, whatever it carries
C3_BypassAcceptsAtOnce ==
    (Verified /\ Bypassed(last.req)) =>
        /\ last.run.out = "Accept" /\ last.run.next
        /\ last.run.steps = <<"method">>
        /\ last.run.token = None /\ last.run.stored = None
        /\ last.run.map = last.before /\ map = last.before

\* a HEAD request from another origin, with a string that is no token, is
\* accepted by an engine that checks origins
C3_Witness ==
    /\ Verified /\ opts.originCheck
    /\ last.req.method = "HEAD"
    /\ last.req.origin = Some(EvilOrigin)
    /\ last.req.header = Some(NotAToken)
    /\ last.run.out = "Accept"

\* the first non-empty of header, body field and query parameter
FirstNonEmpty(req) ==
    IF req.header # None /\ req.header # Some("") THEN req.header
    ELSE IF req.body # None /\ req.body # Some("") THEN req.body
    ELSE IF req.query # None /\ req.query # Some("") THEN req.query
    ELSE None

\* C4: past the method and origin checks, the token verify works with is the
\* first non-empty of header, body field and query parameter; with none the
\* answer is 403 "CSRF token missing." and the store is not read
C4_ExtractionOrder ==
    (Verified /\ ~Bypassed(last.req) /\ PastOrigin(last.req)) =>
        IF FirstNonEmpty(last.req) = None
        THEN /\ last.run.out = "TokenMissing" /\ last.run.status = 403
             /\ ~last.run.next
             /\ "get" \notin Range(last.run.steps)
             /\ last.run.stored = None
             /\ map = last.before
        ELSE /\ last.run.token = FirstNonEmpty(last.req)
             /\ last.run.out # "TokenMissing"

\* a request is refused for the string in its header although its body field
\* holds a token that is accepted when the header is left out
C4_Witness ==
    /\ Verified /\ ~Bypassed(last.req) /\ PastOrigin(last.req)
    /\ last.req.header = Some(NotAToken)
    /\ last.req.body # None /\ last.req.body # last.req.header
    /\ last.run.out # "Accept"
    /\ verify([last.req EXCEPT !.header = None]).out = "Accept"

\* the Origin header names a host, and not the request's
OriginDiffers(req) ==
    /\ req.origin # None
    /\ UrlHost(req.origin[1]) # None
    /\ UrlHost(req.origin[1]) # req.host

\* C5: with originCheck on, a non-bypassed request whose Origin host differs
\* from its own host is refused for the origin, before any token is extracted
\* or the store is read, whatever token it carries
C5_OriginMismatchFirst ==
    (Verified /\ opts.originCheck /\ ~Bypassed(last.req) /\ OriginDiffers(last.req)) =>
        /\ last.run.out = "OriginMismatch" /\ last.run.status = 403
        /\ last.run.steps = <<"method", "origin">>
        /\ last.run.token = None /\ last.run.stored = None
        /\ map = last.before

\* a request from another origin is refused although it carries a token that
\* is accepted from the application's origin, and a Referer of the application
C5_Witness ==
    /\ Verified /\ opts.originCheck /\ ~Bypassed(last.req) /\ OriginDiffers(last.req)
    /\ last.run.out = "OriginMismatch"
    /\ HostMatches(last.req.referer, last.req.host)
    /\ verify([last.req EXCEPT !.origin = Some(AppOrigin)]).out = "Accept"

\* the header is present, parses as a URL, and names the request's host
NamesHost(h, host) == h # None /\ UrlHost(h[1]) # None /\ UrlHost(h[1]) = host

\* C6, as stated: with originCheck on, a non-bypassed request gets past the
\* origin check exactly when its Origin names its host, or it has no Origin
\* header and its Referer names its host
C6_OriginPassExactly ==
    (Verified /\ opts.originCheck /\ ~Bypassed(last.req)) =>
        (last.run.out # "OriginMismatch") <=>
            \/ NamesHost(last.req.origin, last.req.host)
            \/ /\ last.req.origin = None
               /\ NamesHost(last.req.referer, last.req.host)

\* C6, amended: with originCheck on, a non-bypassed request gets past the
\* origin check exactly when its Origin names its host, or its Origin header
\* is absent or empty and its Referer names its host
C6_OriginPassExactlyOrEmpty ==
    (Verified /\ opts.originCheck /\ ~Bypassed(last.req)) =>
        (last.run.out # "OriginMismatch") <=>
            \/ NamesHost(last.req.origin, last.req.host)
            \/ /\ last.req.origin \in {None, Some("")}
               /\ NamesHost(last.req.referer, last.req.host)

\* a request with an empty Origin header gets past the origin check on its
\* Referer
C6_Witness ==
    /\ Verified /\ opts.originCheck /\ ~Bypassed(last.req)
    /\ last.req.origin = Some("")
    /\ NamesHost(last.req.referer, last.req.host)
    /\ last.run.out # "OriginMismatch"

\* C7: in stateless mode a non-bypassed request past the origin check that
\* carries a token is refused as invalid when verifySignedToken is not ok,
\* refused as expired when it is ok and the payload has an exp with now > exp,
\* and accepted otherwise
C7_StatelessDecision ==
    (Verified /\ opts.stateless /\ ~Bypassed(last.req) /\ PastOrigin(last.req)
        /\ Carried(last.req) # None) =>
        LET v == verifySignedToken(Carried(last.req)[1], opts.statelessKey)
            exp == PayloadExp(v.payload)
        IN  last.run.out = IF ~v.ok THEN "TokenInvalid"
                           ELSE IF exp # None /\ last.at > exp[1] THEN "TokenExpired"
                           ELSE "Accept"

\* the tokens createStatelessToken returned, to the engine or to the application
Created == {r \in issued : r.by = "createStatelessToken" \/ (r.by = "token" /\ r.secret = <<>>)}

\* C8: a token returned by createStatelessToken(ttlMs, key) verifies under key
\* with ok = true and the payload {iat, exp} with exp = iat + ttlMs; a stateless
\* engine accepts its own token on a non-bypassed request past the origin
\* check at every time up to exp
C8_CreatedTokenVerifies ==
    /\ \A r \in Created :
          verifySignedToken(r.tok, r.key) =
              [ok |-> TRUE, payload |-> Some([iat |-> r.iat, exp |-> r.iat + r.ttl])]
    /\ (Verified /\ opts.stateless /\ ~Bypassed(last.req) /\ PastOrigin(last.req)) =>
          \A r \in Created :
              (r.by = "token" /\ Carried(last.req) = Some(r.tok) /\ last.at <= r.iat + r.ttl)
                  => last.run.out = "Accept"

\* C9: a stateless engine refuses as expired, at every time from its creation
\* on, a token createStatelessToken made under its key with a negative ttlMs
C9_NegativeTtlExpired ==
    (Verified /\ opts.stateless /\ ~Bypassed(last.req) /\ PastOrigin(last.req)) =>
        \A r \in Created :
            (r.by = "createStatelessToken" /\ r.ttl < 0 /\ r.key = opts.statelessKey
                /\ Carried(last.req) = Some(r.tok))
                => last.run.out = "TokenExpired"

\* C10: verifySignedToken(signPayload(P, K), K) is ok with the payload JSON.parse
\* gives for P (null when P is no JSON), for every P, K and value of the MAC
C10_SignatureRoundTrip ==
    (cin.op = "verifySignedToken" /\ cin.key = cin.signedWith) =>
        cin.res = [ok |-> TRUE, payload |-> ParseJSON(cin.text)]

\* C11: replacing the final character of a token signPayload returned by
\* another character of the alphabet gives a string verifySignedToken refuses
\* under the same key
C11_TamperedSignedTokenRefused ==
    (cin.op = "tamperSigned") => ~cin.res.ok

\* C12: unmaskToken gives back the secret, byte for byte, from the masked token
\* of every secret and pad; the tokens of a secret under two pads are
\* different strings, and both unmask to the secret
C12_MaskRoundTrip ==
    (cin.op = "unmaskToken") =>
        /\ cin.res # None
        /\ Len(cin.res[1]) = Len(cin.secret)
        /\ cin.res[1] = cin.secret
        /\ \A pad \in RandomBytes(Len(cin.secret)) :
              pad # cin.pad =>
                  /\ MaskedToken(cin.secret, pad) # cin.tok
                  /\ unmaskToken(MaskedToken(cin.secret, pad)) = Some(cin.secret)

\* a secret of two different bytes comes back from under a pad that is neither
\* the secret nor all zero
C12_Witness ==
    /\ cin.op = "unmaskToken"
    /\ Len(cin.secret) = MaxMaskLen
    /\ cin.secret[1] # cin.secret[MaxMaskLen]
    /\ cin.pad # cin.secret
    /\ \E i \in DOMAIN cin.pad : cin.pad[i] # 0
    /\ cin.res = Some(cin.secret)

\* C13: a masked token with any one character changed is not accepted against
\* the secret it was minted from: unmaskToken fails, or what it recovers
\* differs from the secret
C13_TamperedMaskedTokenRefused ==
    (cin.op = "tamperMasked") =>
        \/ cin.res = None
        \/ ~(Len(cin.res[1]) = Len(cin.secret) /\ safeEqual(cin.res[1], cin.secret))

\* the decoded length of the string is zero or odd
OddLength(tok) == Len(decode(tok)) = 0 \/ Len(decode(tok)) % 2 # 0

\* C14: unmaskToken fails on every input whose decoded length is zero or odd,
\* and a stateful verify with masking that gets to such a token answers 403
\* "CSRF token malformed."; the request is never accepted, and no 500 is
\* answered but for a store that fails
C14_MalformedTokenRefused ==
    (Verified /\ ~opts.stateless /\ opts.mask /\ ~Bypassed(last.req) /\ PastOrigin(last.req)
        /\ Carried(last.req) # None /\ OddLength(Carried(last.req)[1])) =>
        /\ unmaskToken(Carried(last.req)[1]) = None
        /\ last.run.out # "Accept" /\ ~last.run.next
        /\ last.run.stored # None =>
              (last.run.out = "TokenMalformed" /\ last.run.status = 403)
        /\ last.run.out = "InternalError" => opts.store = "getFails"

\* a string that decodes to no byte at all is refused as malformed under a
\* session key whose secret is stored
C14_Witness ==
    /\ Verified /\ ~opts.stateless /\ opts.mask
    /\ Carried(last.req) = Some("A")
    /\ Len(decode("A")) = 0
    /\ last.run.stored # None
    /\ last.run.out = "TokenMalformed"

\* the texts of the 403 refusals
RefusalTexts ==
    { "CSRF: origin/referrer mismatch.", "CSRF token missing.", "CSRF token invalid.",
      "CSRF token expired.", "CSRF session missing.", "CSRF secret missing.",
      "CSRF token malformed.", "CSRF token length mismatch.", "CSRF token mismatch." }

\* the run in last got to a store read that threw
StoreThrew ==
    /\ Verified /\ opts.store = "getFails"
    /\ Len(last.run.steps) > 0
    /\ last.run.steps[Len(last.run.steps)] = "get"

\* C18: when a step of verify throws (the store read fails) the answer is the
\* status 500 with the fixed text "CSRF verification error.", which is none of
\* the 403 refusals; the request is not accepted; and a 500 is answered in no
\* other case
C18_ExceptionIsInternalError ==
    Verified =>
        /\ StoreThrew =>
              /\ last.run.out = "InternalError"
              /\ last.run.status = 500
              /\ last.run.text = "CSRF verification error."
              /\ last.run.text \notin RefusalTexts
              /\ ~last.run.next
              /\ map = last.before
        /\ (last.run.out = "InternalError" \/ last.run.status = 500) => StoreThrew

\* a request from the application's origin with a token and a session key gets
\* the 500 of a store whose get rejects
C18_Witness ==
    /\ StoreThrew
    /\ PastOrigin(last.req) /\ opts.originCheck
    /\ Carried(last.req) # None /\ Resolved(last.req) # None
    /\ last.run.status = 500

\* the reasons of a refusal
Rejections ==
    { "OriginMismatch", "TokenMissing", "TokenInvalid", "TokenExpired", "SessionMissing",
      "SecretMissing", "TokenMalformed", "LengthMismatch", "ValueMismatch" }

Got == last.op = "get"

\* the most recent set of the key read, if there was one
Current == last.note[last.key]

\* the key read was set, no del followed, and the set had no expiry or its own
\* expiry has not passed
Live ==
    /\ last.key \in DOMAIN last.note
    /\ ~Current.del
    /\ (Current.exp = None \/ last.at <= Current.exp[1])

\* C15: get(k) returns the value of the most recent set(k, v, ttlSeconds) when
\* no del(k) followed it and it had no expiry or its own expiry has not passed,
\* whatever earlier writes to k and their cleanup timers did
C15_GetReturnsLatestSet ==
    (Got /\ Live) => last.val = Some(Current.val)

\* C16: get(k) returns absent when k was never set, when a del(k) followed the
\* most recent set, and when that set had an expiry that has passed, whether
\* the entry is still in the Map or the cleanup timer has removed it
C16_GoneStaysGone ==
    (Got /\ ~Live) => last.val = None

\* the expiry has passed and the entry is still in the Map: the cleanup timer
\* has not run yet, and get answers absent
C16_Witness ==
    /\ Got /\ ~Live
    /\ last.key \in DOMAIN last.before
    /\ last.key \in DOMAIN last.note /\ ~Current.del
    /\ last.before[last.key].wid = Current.wid
    /\ Current.exp # None /\ last.at > Current.exp[1]
    /\ \E t \in timers : t.wid = Current.wid
    /\ last.val = None


\* the options say stateless = false and no store, or stateless = true and no
\* statelessKey
Contradictory(u) ==
    LET o == Assign(DEFAULTS, u)
    IN  \/ Falsy(o.stateless) /\ Falsy(o.store)
        \/ ~Falsy(o.stateless) /\ Falsy(o.statelessKey)

MintErrors == {"sidCookie", "get", "set", "cookie"}

SignedResult(req) == verifySignedToken(Carried(req)[1], opts.statelessKey)

\* C21: in stateless mode verify never accepts a token whose signature is
\* valid (ok) but whose payload does not parse as JSON (payload null)
C21_NullPayloadRefused ==
    (Verified /\ opts.stateless /\ ~Bypassed(last.req) /\ Carried(last.req) # None) =>
        ((SignedResult(last.req).ok /\ SignedResult(last.req).payload = None)
            => last.run.out # "Accept")


\* a step of the engine: a run of the middleware or of verify ends, or a run
\* of the middleware is between its store calls
EngineStep == last'.op \in {"mint", "verify"} \/ pend' # pend

\* C22: in a stateless engine no mint and no verify calls the store: the steps
\* of a verify hold no get, no mint waits on the store, and every step of the
\* engine leaves the Map and its timers as they were
C22_StatelessUsesNoStore ==
    /\ [](opts.stateless =>
            /\ Pending = {}
            /\ Verified => ("get" \notin Range(last.run.steps) /\ last.run.stored = None))
    /\ [][(opts.stateless /\ EngineStep) => (map' = map /\ timers' = timers)]_vars

\* a stateless verify of a request that names a session key the store holds
C22_Witness ==
    /\ Verified /\ opts.stateless
    /\ last.run.out = "Accept"
    /\ last.req.session # None
    /\ last.req.session[1] \in DOMAIN map
    /\ \E r \in issued : r.by = "token" /\ Carried(last.req) = Some(r.tok)


\* the Map m holds no unexpired entry under key k at time t
NoSecret(m, k, t) ==
    \/ k \notin DOMAIN m
    \/ m[k].exp # None /\ t > m[k].exp[1]

\* the bytes a token stands for: its unmasked second half under masking, its
\* decoded bytes otherwise
CandidateBytes(tok) == IF opts.mask THEN unmaskToken(tok)[1] ELSE decode(tok)

\* the outcome the order of the checks gives the request req on Map m at time t
StatefulOutcome(req, m, t) ==
    LET key == Resolved(req)
        tok == Carried(req)[1]
    IN  IF key = None THEN "SessionMissing"
        ELSE IF NoSecret(m, key[1], t) THEN "SecretMissing"
        ELSE IF opts.mask /\ OddLength(tok) THEN "TokenMalformed"
        ELSE IF Len(CandidateBytes(tok)) # Len(decode(m[key[1]].val)) THEN "LengthMismatch"
        ELSE IF CandidateBytes(tok) # decode(m[key[1]].val) THEN "ValueMismatch"
        ELSE "Accept"

\* C23: in stateful mode the outcome of a non-bypassed request past the origin
\* check that carries a token is the first failing of SessionMissing,
\* SecretMissing, TokenMalformed, LengthMismatch, ValueMismatch, in that order,
\* and Accept when none fails
C23_StatefulDecisionOrder ==
    (Verified /\ ~opts.stateless /\ opts.store # "getFails" /\ ~Bypassed(last.req)
        /\ PastOrigin(last.req) /\ Carried(last.req) # None) =>
        last.run.out = StatefulOutcome(last.req, last.before, last.at)

\* a minted token is presented under its session key after the secret has
\* expired and while its entry is still in the Map: the secret is missing
C23_Witness ==
    /\ Verified /\ ~opts.stateless
    /\ \E r \in Minted :
        /\ Carried(last.req) = Some(r.tok)
        /\ Resolved(last.req) = Some(r.key)
        /\ r.key \in DOMAIN last.before
        /\ last.before[r.key].exp # None /\ last.at > last.before[r.key].exp[1]
    /\ last.run.out = "SecretMissing"


\* two mints wrote a secret under the same session key, r1 before r2
Overwrote(r1, r2) == r1.key = r2.key /\ r1.wid < r2.wid

\* the run in last resolved to the key of r while the secret r was minted from
\* was the one stored, unexpired
RanUnder(r) ==
    /\ Resolved(last.req) = Some(r.key)
    /\ Intact(r, last.before, last.at)

\* C24: when two mints for one session key both wrote a secret, the store
\* holds that of the later write; a verify under it refuses the token minted
\* from the overwritten secret and accepts the one minted from the surviving
\* secret
C24_LastWriteWins ==
    \A r1, r2 \in Minted : Overwrote(r1, r2) =>
        /\ r1.key \in DOMAIN map => map[r1.key].wid # r1.wid
        /\ (Verified /\ ~Bypassed(last.req) /\ PastOrigin(last.req) /\ RanUnder(r2)) =>
            /\ Carried(last.req) = Some(r2.tok) => last.run.out = "Accept"
            /\ (Carried(last.req) = Some(r1.tok) /\ r1.secret # r2.secret)
                    => last.run.out = "ValueMismatch"

\* both mints wrote at the same instant, so both had read absent before either
\* wrote; the token of the first is refused under the secret of the second
C24_Witness ==
    /\ Verified
    /\ \E r1, r2 \in Minted :
        /\ Overwrote(r1, r2) /\ r1.iat = r2.iat
        /\ RanUnder(r2)
        /\ Carried(last.req) = Some(r1.tok)
        /\ last.run.out = "ValueMismatch"


\* the mint call that returned the token of r returned after the entry e of
\* the Map was written
ReturnedAfter(r, e) == r.ret >= e.wid

\* C25: a verify against the secret stored under a session key accepts every
\* token of that key whose mint call returned after that secret was written,
\* however the mint calls were interleaved
C25_TokensAfterWriteAccepted ==
    (Verified /\ ~opts.stateless /\ ~Bypassed(last.req) /\ PastOrigin(last.req)) =>
        \A r \in Minted :
            ( /\ Carried(last.req) = Some(r.tok)
              /\ Resolved(last.req) = Some(r.key)
              /\ ~NoSecret(last.before, r.key, last.at)
              /\ ReturnedAfter(r, last.before[r.key]) ) => last.run.out = "Accept"


\* the unexpired entries of the Map m at time t
Unexpired(m, t) ==
    [k \in {j \in DOMAIN m : ~NoSecret(m, j, t)} |-> m[k]]

\* the calls of the store's get among the steps of a run
Gets(steps) == {i \in DOMAIN steps : steps[i] = "get"}

\* C26: verify calls the store's get at most once and never set or del: the
\* unexpired entries of the store are the same after a verify as before it,
\* whatever its outcome, no key is added, and no write or timer is made
C26_VerifyWritesNothing ==
    /\ [](Verified =>
            /\ Cardinality(Gets(last.run.steps)) <= 1
            /\ map = last.run.map
            /\ DOMAIN map \subseteq DOMAIN last.before
            /\ Unexpired(map, last.at) = Unexpired(last.before, last.at))
    /\ [][last'.op = "verify" =>
            /\ Unexpired(map', now) = Unexpired(map, now)
            /\ writes' = writes /\ timers' = timers /\ sets' = sets]_vars

\* a verify whose get found the secret expired and removed its entry: it
\* answers SecretMissing and the unexpired entries are as before
C26_Witness ==
    /\ Verified /\ ~opts.stateless
    /\ last.run.out = "SecretMissing"
    /\ last.run.key # None
    /\ last.run.key[1] \in DOMAIN last.before
    /\ last.run.key[1] \notin DOMAIN map


\* a mint whose read of the session key found a secret has just returned
MintedFromStored == last'.op = "mint" /\ last'.token # None /\ pend' = pend

\* a write to the store by the middleware
MintWrites == writes' # writes

\* the most recent write of key k, noted when it was made, has not expired
NotedLive(k) == sets[k].exp = None \/ now <= sets[k].exp[1]

\* C27: a stateful mint writes to the store only when its read returned
\* absent; a mint that found a secret leaves the Map, its expiry times and its
\* timers as they were and returns a token of a stored, unexpired secret; the
\* tokens minted from one write of a key all stand for the same secret; and a
\* secret stays stored, with the expiry it was written with, until ttl seconds
\* after its write
C27_MintWritesOnlyWhenAbsent ==
    /\ [][(~opts.stateless /\ MintWrites) =>
            \E p \in Procs : Len(pend[p]) = 1 /\ Len(pend'[p]) = 4]_vars
    /\ [][(~opts.stateless /\ MintedFromStored) =>
            /\ map' = map /\ timers' = timers /\ writes' = writes
            /\ \E k \in DOMAIN map :
                /\ ~NoSecret(map, k, now)
                /\ Candidate(last'.token[1]) = Some(decode(map[k].val))]_vars
    /\ [](\A r1, r2 \in Minted :
            (r1.key = r2.key /\ r1.wid = r2.wid) =>
                (r1.secret = r2.secret /\ Candidate(r1.tok) = Some(r2.secret)))
    /\ [](~opts.stateless =>
            \A k \in DOMAIN sets : NotedLive(k) =>
                /\ k \in DOMAIN map
                /\ map[k].wid = sets[k].wid
                /\ map[k].exp = sets[k].exp)


\* the engine was constructed without a store option
NoStoreGiven(e) == cin.eng[e].given = Absent

\* the store engine e works on
StoreOf(e) == cin.eng[e].opts.store

\* the secret a store holds for the session key, if any
HeldBy(s) == IF "s1" \in DOMAIN cin.maps[s] THEN Some(decode(cin.maps[s]["s1"].val)) ELSE None

=============================================================================
